---- MODULE Spec2Model ----
(***************************************************************************)
(* VegaBaseView (vis_type_vega/public/vega_view/vega_base_view.js):        *)
(* the init/destroy lifecycle, the destroy-handler chain, setView, the     *)
(* message list, the loader's sanitize override and the expression         *)
(* function bridge.                                                        *)
(*                                                                         *)
(* JavaScript runs each synchronous call to completion.  The synchronous   *)
(* execution in progress is the variable stack: while it is not empty the  *)
(* only steps are those of the call on top of it.  Promises that are       *)
(* pending (an async cleanup handler, the await inside init) are settled   *)
(* by separate steps, taken only when the stack is empty.                  *)
(***************************************************************************)
EXTENDS Integers, Sequences, FiniteSets, TLC

\* ------------------------------------------------------------------ bounds
MaxHandlers == 2
MaxDestroyCalls == 2
MaxDepth == 2
MaxWarnings == 1
MaxMessages == 1
NumHandles == 2
MaxDeferred == 1
MaxBinds == 3

\* ------------------------------------------------------------------ values
\* this._destroyHandlers = null (handler ids start at 1)
Null == <<0>>
\* a value that is not a promise (undefined): Promise.all treats it as resolved
Undefined == 0

VARIABLES
  destroyHandlers,  \* this._destroyHandlers: sequence of handler ids, or Null
  ongoingDestroy,   \* this._ongoingDestroy: promise id, or Undefined
  handlerKind,      \* every closure ever passed to _addDestroyHandler, by id
  stack,            \* synchronous calls in progress, innermost last
  promises,         \* promise id -> the values given to Promise.all
  runs,             \* every invocation of a cleanup handler, in start order
  calls,            \* every destroy() call, in call order, with its outcome
  initialized,      \* this._initialized
  parser,           \* this._parser: the ParserResult (never changes)
  container,        \* this._$container: "unset" (undefined), "node" or "null"
  controls,         \* this._$controls
  messagesEl,       \* this._$messages: "null" or "node"
  messages,         \* the <li> items of this._$messages, by kind, in order
  parentEl,         \* the children of this._$parentEl in the document
  view,             \* this._view: an engine handle, or NoView (null)
  finalized,        \* the engine handles on which finalize() was called
  passed,           \* the engine handles ever given to setView()
  viewConfig,       \* this._vegaViewConfig: "null" or "set"
  initResult,       \* what the first init() call gave its caller so far
  enableExternalUrls, \* this._enableExternalUrls
  sanitized,        \* the last loader.sanitize(uri) call and what came of it
  methods,          \* the handler methods defined on the controller
  pendingIndex,     \* the filter handlers suspended in await this.findIndex()
  hostCalls,        \* the host services the last bridge or engine step invoked
  timeFilter,       \* the last range given to this._applyFilter, if any
  parsed,           \* the _parseTimeRange(start, end) call of the last bridge step
  pass,             \* the engine handle whose render pass is in progress, or NoView
  postrun,          \* the callbacks that handle's runAfter() holds for after the pass
  debugSlot,        \* window.VEGA_DEBUG: DebugUndefined, DebugNull, or a debugObj (its id)
  debugObjs,        \* every debugObj created by setDebugValues, by id
  debugHandlers,    \* per controller: the debug cleanups in _destroyHandlers, or Null
  welcomed,         \* how often the welcome text was logged to the console
  lastOp            \* the operation the last step performed

chainVars == <<destroyHandlers, ongoingDestroy, handlerKind, stack, promises, runs, calls>>
domVars == <<container, controls, messagesEl, messages, parentEl, view, finalized>>
lifeVars == <<initialized, parser, domVars, passed, viewConfig, initResult>>

gateVars == <<enableExternalUrls, sanitized>>
bridgeVars == <<methods, pendingIndex, hostCalls, timeFilter, parsed, pass, postrun>>

debugVars == <<debugSlot, debugObjs, debugHandlers, welcomed>>

vars == <<chainVars, lifeVars, gateVars, bridgeVars, debugVars, lastOp>>

\* this._view = null
NoView == 0
Handles == 1..NumHandles

\* The ParserResult fields init(), onWarn() and setView() read.
ParserResults ==
  [error : BOOLEAN, warnings : 0..MaxWarnings, hideWarnings : BOOLEAN, tooltips : BOOLEAN]

\* A step's record: the operation, its input or the path it took, what its
\* caller got ("ok", "threw"; "" when not recorded), whether it was setView()
\* called with the handle that was bound already, and whether it called
\* view.runAsync().
OpOut(op, path, out) == [op |-> op, path |-> path, out |-> out, same |-> FALSE, render |-> FALSE]
OpOn(op, path, same, render) == [op |-> op, path |-> path, out |-> "", same |-> same, render |-> render]
Op(op, same, render) == OpOn(op, "", same, render)

\* ------------------------------------------------------------ constructor
ConstructChain ==
  /\ destroyHandlers = <<>>
  /\ ongoingDestroy = Undefined
  /\ handlerKind = <<>>
  /\ stack = <<>>
  /\ promises = <<>>
  /\ runs = <<>>
  /\ calls = <<>>

\* The table vegaFunctions: expression function name -> handler method name.
FunctionNames ==
  {"opensearchDashboardsAddFilter", "opensearchDashboardsRemoveFilter",
   "opensearchDashboardsRemoveAllFilters", "opensearchDashboardsSetTimeFilter"}
HandlerMethods ==
  {"addFilterHandler", "removeFilterHandler", "removeAllFiltersHandler",
   "setTimeFilterHandler"}

\* The class defines all four handler methods; an instance or a derived
\* class may lack one.
MethodSets == {HandlerMethods} \cup {HandlerMethods \ {m} : m \in HandlerMethods}

\* The start and end values a specification can give to setTimeFilter: raw
\* is the string, abs whether moment(raw).isValid(), at the instant that
\* dateMath.parse(raw) resolves it to (0: it does not parse).
TimeInputs ==
  { [raw |-> "2020-01-01",       abs |-> TRUE,  at |-> 1],
    [raw |-> "2020-01-01T00:00", abs |-> TRUE,  at |-> 1],
    [raw |-> "2021-01-01",       abs |-> TRUE,  at |-> 2],
    [raw |-> "now-1h",           abs |-> FALSE, at |-> 3],
    [raw |-> "now",              abs |-> FALSE, at |-> 4],
    [raw |-> "now+0s",           abs |-> FALSE, at |-> 4],
    [raw |-> "not-a-date",       abs |-> FALSE, at |-> 0],
    [raw |-> "also-not-a-date",  abs |-> FALSE, at |-> 0] }
\* Those of them the bridge is exercised with: one of each class.
SpecTimeInputs == {x \in TimeInputs : x.raw \in {"2021-01-01", "now-1h", "not-a-date"}}
Instant(t) == [kind |-> "instant", at |-> t, raw |-> ""]
Raw(x) == [kind |-> "raw", at |-> 0, raw |-> x.raw]

\* const bypassToken = Symbol(): equal to itself only.  The other tokens are
\* what a specification can carry instead: nothing, another symbol, a string.
bypassToken == "Symbol()#module"
NoToken == "undefined"
Tokens == {NoToken, bypassToken, "Symbol()#other", "bypassToken"}
Urls == {"http://a", "file://b"}
\* A URI is a string, or an object with a url and (maybe) a bypassToken.
StringUri(u) == [kind |-> "string", url |-> u, bypassToken |-> NoToken]
Uris == [kind : {"string"}, url : Urls, bypassToken : {NoToken}]
          \cup [kind : {"object"}, url : Urls, bypassToken : Tokens]
NoUri == [kind |-> "none", url |-> "", bypassToken |-> NoToken]
NoSanitize == [uri |-> NoUri, out |-> "none", arg |-> NoUri]

NoRange == [mode |-> "none", gte |-> Instant(0), lte |-> Instant(0)]
\* _parseTimeRange was not called / has not returned yet
NoResult == [ok |-> FALSE, from |-> Instant(0), to |-> Instant(0), mode |-> "none"]
NoTimeInput == [raw |-> "", abs |-> FALSE, at |-> 0]
NoParse == [start |-> NoTimeInput, end |-> NoTimeInput, out |-> NoResult]

\* constructor(opts), lines 73-87; this._$container and this._$controls are
\* not assigned there.
ConstructView ==
  /\ ConstructChain
  /\ initialized = FALSE
  /\ parser \in ParserResults
  /\ container = "unset"
  /\ controls = "unset"
  /\ messagesEl = "null"
  /\ messages = <<>>
  /\ parentEl = {}
  /\ view = NoView
  /\ finalized = {}
  /\ passed = {}
  /\ viewConfig = "null"
  /\ initResult = "none"
  /\ enableExternalUrls \in BOOLEAN
  /\ sanitized = NoSanitize
  /\ methods \in MethodSets
  /\ pendingIndex = {}
  /\ hostCalls = {}
  /\ timeFilter = NoRange
  /\ lastOp = Op("new", FALSE, FALSE)

\* The controllers that share the window, and what the window and their
\* handler arrays hold before any of them called setDebugValues().
Controllers == {"first", "second"}
\* window.VEGA_DEBUG === undefined; window.VEGA_DEBUG = null (ids start at 1)
DebugUndefined == -1
DebugNull == 0
ConstructDebug ==
  /\ debugSlot = DebugUndefined
  /\ debugObjs = <<>>
  /\ debugHandlers = [c \in Controllers |-> <<>>]
  /\ welcomed = 0

Construct ==
  ConstructView /\ parsed = NoParse /\ pass = NoView /\ postrun = <<>> /\ ConstructDebug

\* ----------------------------------------------------------------- helpers
Top == stack[Len(stack)]
Pop(s) == SubSeq(s, 1, Len(s) - 1)
SetTop(s, f) == [s EXCEPT ![Len(s)] = f]

\* No synchronous call is in progress: a new one may be made by the host.
Idle == stack = <<>>
\* The body of a cleanup handler is executing on top of the stack.
InBody == stack # <<>> /\ Top.run # 0
\* Who may make a call now: the host, or the handler body that is executing.
CanCall == Idle \/ (InBody /\ Len(stack) < MaxDepth)

\* Array.prototype.map visits the elements by increasing index.
MapElementReversed(arr, i) == arr[Len(arr) + 1 - i]
MapElement(arr, i) == arr[i]

\* State of a promise returned by a cleanup handler / of a Promise.all.
RunState(r) == runs[r].st
PromiseState(p) ==
  LET deps == promises[p] IN
  IF \A k \in 1..Len(deps) : deps[k] = Undefined \/ RunState(deps[k]) = "resolved"
    THEN "fulfilled"
    ELSE "pending"

Frame(kind, call, arr) ==
  [kind |-> kind, call |-> call, arr |-> arr, i |-> 1, res |-> <<>>, run |-> 0]

\* --------------------------------------------------------------- destroy()
\* destroy(), entry: with a handler array, start mapping over it; without
\* one, return this._ongoingDestroy at once.
DestroyCall ==
  /\ CanCall
  /\ Len(calls) < MaxDestroyCalls
  /\ IF destroyHandlers # Null
       THEN /\ stack' = Append(stack, Frame("destroy", Len(calls) + 1, destroyHandlers))
            /\ calls' = Append(calls, [st |-> "active", val |-> Undefined,
                                       arr |-> destroyHandlers, nested |-> ~Idle])
       ELSE /\ calls' = Append(calls, [st |-> "returned", val |-> ongoingDestroy,
                                       arr |-> <<>>, nested |-> ~Idle])
            /\ stack' = stack
  /\ lastOp' = Op("destroy", FALSE, FALSE)
  /\ UNCHANGED <<destroyHandlers, ongoingDestroy, handlerKind, promises, runs>>
  /\ UNCHANGED lifeVars
  /\ UNCHANGED <<gateVars, bridgeVars, debugVars>>

\* map's callback (v) => v(): the next handler of the array is invoked.
HandlerStart ==
  /\ stack # <<>> /\ Top.run = 0 /\ Top.i <= Len(Top.arr)
  /\ handlerKind[MapElement(Top.arr, Top.i)] = "ext"
  /\ runs' = Append(runs, [h |-> MapElement(Top.arr, Top.i), st |-> "body",
                           call |-> Top.call])
  /\ stack' = SetTop(stack, [Top EXCEPT !.run = Len(runs) + 1])
  /\ lastOp' = Op("handler", FALSE, FALSE)
  /\ UNCHANGED <<destroyHandlers, ongoingDestroy, handlerKind, promises, calls>>
  /\ UNCHANGED lifeVars
  /\ UNCHANGED <<gateVars, bridgeVars, debugVars>>

\* The handler returns: a plain value, or a promise that is still pending.
HandlerReturn ==
  /\ InBody
  /\ \E async \in BOOLEAN :
       /\ runs' = [runs EXCEPT ![Top.run].st = IF async THEN "pending" ELSE "returned"]
       /\ stack' = SetTop(stack, [Top EXCEPT !.run = 0, !.i = @ + 1,
                     !.res = Append(@, IF async THEN Top.run ELSE Undefined)])
  /\ lastOp' = Op("handler", FALSE, FALSE)
  /\ UNCHANGED <<destroyHandlers, ongoingDestroy, handlerKind, promises, calls>>
  /\ UNCHANGED lifeVars
  /\ UNCHANGED <<gateVars, bridgeVars, debugVars>>

\* The handler throws: map and destroy() are abandoned at this point, the
\* two statements after the map (lines 483-484) are not executed.
HandlerThrow ==
  /\ InBody
  /\ runs' = [runs EXCEPT ![Top.run].st = "thrown"]
  /\ calls' = IF Top.kind = "destroy"
                THEN [calls EXCEPT ![Top.call].st = "threw"] ELSE calls
  /\ stack' = Pop(stack)
  /\ lastOp' = Op("handler", FALSE, FALSE)
  /\ UNCHANGED <<destroyHandlers, ongoingDestroy, handlerKind, promises>>
  /\ UNCHANGED lifeVars
  /\ UNCHANGED <<gateVars, bridgeVars, debugVars>>

\* destroy(), after the map: this._ongoingDestroy = Promise.all(results);
\* this._destroyHandlers = null; return this._ongoingDestroy.
\* (For a handler invoked directly by _addDestroyHandler, just return.)
DestroyFinish ==
  /\ stack # <<>> /\ Top.run = 0 /\ Top.i > Len(Top.arr)
  /\ IF Top.kind = "destroy"
       THEN /\ promises' = Append(promises, Top.res)
            /\ ongoingDestroy' = Len(promises) + 1
            /\ destroyHandlers' = Null
            /\ calls' = [calls EXCEPT ![Top.call].st = "returned",
                                      ![Top.call].val = Len(promises) + 1]
       ELSE UNCHANGED <<promises, ongoingDestroy, destroyHandlers, calls>>
  /\ stack' = Pop(stack)
  /\ lastOp' = Op("destroy", FALSE, FALSE)
  /\ UNCHANGED <<handlerKind, runs>>
  /\ UNCHANGED lifeVars
  /\ UNCHANGED <<gateVars, bridgeVars, debugVars>>

\* ---------------------------------------------------- _addDestroyHandler()
\* _addDestroyHandler(h) for a new closure h of the given kind: enqueue it
\* while the array exists, otherwise invoke it right away.
AddDestroyHandler(kind) ==
  /\ handlerKind' = Append(handlerKind, kind)
  /\ IF destroyHandlers # Null
       THEN /\ destroyHandlers' = Append(destroyHandlers, Len(handlerKind) + 1)
            /\ stack' = stack
       ELSE /\ destroyHandlers' = destroyHandlers
            /\ stack' = Append(stack, Frame("imm", 0, <<Len(handlerKind) + 1>>))

\* A derived class (or a running handler) registers a cleanup handler.
RegisterHandler ==
  /\ CanCall
  /\ Len(handlerKind) < MaxHandlers
  /\ AddDestroyHandler("ext")
  /\ lastOp' = Op("register", FALSE, FALSE)
  /\ UNCHANGED <<ongoingDestroy, promises, runs, calls>>
  /\ UNCHANGED lifeVars
  /\ UNCHANGED <<gateVars, bridgeVars, debugVars>>

\* A promise returned by a cleanup handler resolves.
HandlerSettle ==
  /\ Idle
  /\ \E r \in 1..Len(runs) :
       /\ runs[r].st = "pending"
       /\ runs' = [runs EXCEPT ![r].st = "resolved"]
       /\ lastOp' = Op("settle", FALSE, FALSE)
  /\ UNCHANGED <<destroyHandlers, ongoingDestroy, handlerKind, stack, promises, calls>>
  /\ UNCHANGED lifeVars
  /\ UNCHANGED <<gateVars, bridgeVars, debugVars>>

\* ------------------------------------------------------- DOM and messages
\* The fields the DOM operations read and write, as one record.
Dom ==
  [container |-> container, controls |-> controls, messagesEl |-> messagesEl,
   messages |-> messages, parentEl |-> parentEl, view |-> view, finalized |-> finalized]

Commit(d) ==
  /\ container' = d.container
  /\ controls' = d.controls
  /\ messagesEl' = d.messagesEl
  /\ messages' = d.messages
  /\ parentEl' = d.parentEl
  /\ view' = d.view
  /\ finalized' = d.finalized

\* _addMessage(type, text): create and mount the <ul> when there is none,
\* then append one <li> of the given kind to this._$messages.
AddMessage(d, type) ==
  IF d.messagesEl # "node"
    THEN [d EXCEPT !.messagesEl = "node", !.parentEl = @ \cup {"messages"},
                   !.messages = <<type>>]
    ELSE [d EXCEPT !.messages = Append(@, type)]

RECURSIVE AddMessages(_, _, _)
AddMessages(d, type, n) ==
  IF n = 0 THEN d ELSE AddMessages(AddMessage(d, type), type, n - 1)

\* The cleanup handler init() registers (lines 114-131).
InitCleanup(d) ==
  [d EXCEPT
     !.container = IF @ = "node" THEN "null" ELSE @,
     !.controls = IF @ = "node" THEN "null" ELSE @,
     !.messagesEl = "null",
     !.messages = <<>>,
     !.parentEl = (@ \ (IF d.container = "node" THEN {"container"} ELSE {}))
                     \ ((IF d.controls = "node" THEN {"controls"} ELSE {})
                        \cup (IF d.messagesEl = "node" THEN {"messages"} ELSE {})),
     !.finalized = IF d.view # NoView THEN @ \cup {d.view} ELSE @,
     !.view = NoView]

\* What invoking a handler of the controller's own does to the DOM fields;
\* the tooltip cleanup (tthandler.hideTooltip()) touches none of them.
RunOwnHandler(kind, d) == IF kind = "initCleanup" THEN InitCleanup(d) ELSE d

\* map's callback (v) => v() for a handler of the controller's own: these
\* are synchronous and return undefined.
HandlerRunOwn ==
  /\ stack # <<>> /\ Top.run = 0 /\ Top.i <= Len(Top.arr)
  /\ handlerKind[MapElement(Top.arr, Top.i)] # "ext"
  /\ runs' = Append(runs, [h |-> MapElement(Top.arr, Top.i), st |-> "returned",
                           call |-> Top.call])
  /\ stack' = SetTop(stack, [Top EXCEPT !.i = @ + 1, !.res = Append(@, Undefined)])
  /\ Commit(RunOwnHandler(handlerKind[MapElement(Top.arr, Top.i)], Dom))
  /\ lastOp' = Op("handler", FALSE, FALSE)
  /\ UNCHANGED <<destroyHandlers, ongoingDestroy, handlerKind, promises, calls>>
  /\ UNCHANGED <<initialized, parser, passed, viewConfig, initResult>>
  /\ UNCHANGED <<gateVars, bridgeVars, debugVars>>

\* _addDestroyHandler(h) for a handler of the controller's own, as part of
\* the step that calls it: enqueued, or invoked at once when the array is
\* gone.  AddOwnHandler is its effect on the chain, OwnHandlerAdded its
\* effect on the DOM fields d it is called with.
AddOwnHandler(kind) ==
  /\ handlerKind' = Append(handlerKind, kind)
  /\ IF destroyHandlers # Null
       THEN /\ destroyHandlers' = Append(destroyHandlers, Len(handlerKind) + 1)
            /\ runs' = runs
       ELSE /\ destroyHandlers' = destroyHandlers
            /\ runs' = Append(runs, [h |-> Len(handlerKind) + 1, st |-> "returned",
                                     call |-> 0])

OwnHandlerAdded(kind, d) ==
  IF destroyHandlers # Null THEN d ELSE RunOwnHandler(kind, d)

\* ------------------------------------------------------------------ init()
\* if (this._initialized) throw new Error()
InitGuardOff(isInitialized) == FALSE
InitGuard(isInitialized) == isInitialized

\* if (this._parser.error) { ...; return; }
ParseErrorIgnored(p) == FALSE
ParseErrorHalts(p) == p.error

\* catch (err) { this.onError(err); }: what the caller of init() gets when
\* something inside the try block throws.
InitRethrows(failed, normal) == IF failed THEN "threw" ELSE normal
InitOutcome(failed, normal) == IF failed THEN "ok" ELSE normal

\* Where the try block of init() may throw before it reaches the await.
InitFailures == {"none", "empty", "controls", "config"}

\* Lines 94-99: empty the parent, surface the parse warnings.
InitSurface(d) == AddMessages([d EXCEPT !.parentEl = {}], "warn", parser.warnings)
\* Lines 106-112: mount the view container and the controls.
InitMount(d) ==
  [d EXCEPT !.container = "node", !.controls = "node",
            !.parentEl = @ \cup {"container", "controls"}]

InitCall ==
  /\ Idle
  /\ IF InitGuard(initialized)
       THEN /\ initResult' = initResult
            /\ lastOp' = OpOn("init", "threw", FALSE, FALSE)
            /\ UNCHANGED <<initialized, parser, domVars, passed, viewConfig>>
            /\ UNCHANGED chainVars
       ELSE
         /\ initialized' = TRUE
         /\ \E fail \in InitFailures :
              \/ /\ fail = "empty"
                 /\ Commit(AddMessage(Dom, "err"))
                 /\ initResult' = InitOutcome(TRUE, "awaiting")
                 /\ lastOp' = OpOn("init", "empty", FALSE, FALSE)
                 /\ UNCHANGED <<viewConfig, chainVars>>
              \/ /\ fail # "empty"
                 /\ ParseErrorHalts(parser)
                 /\ Commit(AddMessage(InitSurface(Dom), "err"))
                 /\ initResult' = "ok"
                 /\ lastOp' = OpOn("init", "parseError", FALSE, FALSE)
                 /\ UNCHANGED <<viewConfig, chainVars>>
              \/ /\ fail = "controls"
                 /\ ~ParseErrorHalts(parser)
                 /\ Commit(AddMessage([InitSurface(Dom) EXCEPT !.container = "node",
                                          !.parentEl = @ \cup {"container"}], "err"))
                 /\ initResult' = InitOutcome(TRUE, "awaiting")
                 /\ lastOp' = OpOn("init", "controls", FALSE, FALSE)
                 /\ UNCHANGED <<viewConfig, chainVars>>
              \/ /\ fail = "config"
                 /\ ~ParseErrorHalts(parser)
                 /\ Len(handlerKind) < MaxHandlers
                 /\ AddOwnHandler("initCleanup")
                 /\ Commit(AddMessage(OwnHandlerAdded("initCleanup", InitMount(InitSurface(Dom))),
                                      "err"))
                 /\ initResult' = InitOutcome(TRUE, "awaiting")
                 /\ lastOp' = OpOn("init", "config", FALSE, FALSE)
                 /\ UNCHANGED <<viewConfig, ongoingDestroy, stack, promises, calls>>
              \/ /\ fail = "none"
                 /\ ~ParseErrorHalts(parser)
                 /\ Len(handlerKind) < MaxHandlers
                 /\ AddOwnHandler("initCleanup")
                 /\ Commit(OwnHandlerAdded("initCleanup", InitMount(InitSurface(Dom))))
                 /\ viewConfig' = "set"
                 /\ initResult' = InitOutcome(FALSE, "awaiting")
                 /\ lastOp' = OpOn("init", "await", FALSE, FALSE)
                 /\ UNCHANGED <<ongoingDestroy, stack, promises, calls>>
         /\ UNCHANGED <<parser, passed>>
  /\ UNCHANGED <<gateVars, bridgeVars, debugVars>>

\* The external customization step awaited by init() (line 137) finishes,
\* normally or by throwing; init() catches the error and reports it.
InitCustomizationDone ==
  /\ Idle
  /\ initResult = "awaiting"
  /\ \E failed \in BOOLEAN :
       /\ initResult' = InitOutcome(failed, "ok")
       /\ Commit(IF failed THEN AddMessage(Dom, "err") ELSE Dom)
       /\ lastOp' = OpOn("initDone", IF failed THEN "caught" ELSE "ok", FALSE, FALSE)
  /\ UNCHANGED <<initialized, parser, passed, viewConfig>>
  /\ UNCHANGED chainVars
  /\ UNCHANGED <<gateVars, bridgeVars, debugVars>>

\* ------------------------------------------------------ onError(), onWarn()
OnError ==
  /\ Idle
  /\ Len(messages) < MaxMessages
  /\ Commit(AddMessage(Dom, "err"))
  /\ lastOp' = Op("onError", FALSE, FALSE)
  /\ UNCHANGED <<initialized, parser, passed, viewConfig, initResult>>
  /\ UNCHANGED chainVars
  /\ UNCHANGED <<gateVars, bridgeVars, debugVars>>

\* if (!this._parser || !this._parser.hideWarnings): the parser is always set
ShowsWarningAlways(p) == TRUE
ShowsWarning(p) == ~p.hideWarnings

OnWarn ==
  /\ Idle
  /\ ShowsWarning(parser) => Len(messages) < MaxMessages
  /\ Commit(IF ShowsWarning(parser) THEN AddMessage(Dom, "warn") ELSE Dom)
  /\ lastOp' = Op("onWarn", FALSE, FALSE)
  /\ UNCHANGED <<initialized, parser, passed, viewConfig, initResult>>
  /\ UNCHANGED chainVars
  /\ UNCHANGED <<gateVars, bridgeVars, debugVars>>

\* --------------------------------------------------------------- setView()
\* if (this._view === view) return;
SameView(cur, v) == cur = v

\* if (this._view) { this._view.finalize(); }
FinalizeSkipped(d) == d
FinalizePrevious(d) ==
  IF d.view # NoView THEN [d EXCEPT !.finalized = @ \cup {d.view}] ELSE d

\* The handles a caller can give: none, one given before, or a new one (new
\* handles are numbered in the order they are first given).
Offered == {NoView} \cup {h \in Handles : h \in passed \/ h = Cardinality(passed) + 1}

SetView ==
  /\ Idle
  /\ \E v \in Offered :
       /\ passed' = IF v # NoView THEN passed \cup {v} ELSE passed
       /\ IF SameView(view, v)
            THEN /\ lastOp' = Op("setView", view = v, FALSE)
                 /\ UNCHANGED <<domVars, chainVars>>
            ELSE LET d == [FinalizePrevious(Dom) EXCEPT !.view = v] IN
                 IF v = NoView
                   THEN /\ Commit(d)
                        /\ lastOp' = Op("setView", view = v, FALSE)
                        /\ UNCHANGED chainVars
                 ELSE IF ~parser.tooltips
                   THEN /\ Commit(d)
                        /\ lastOp' = Op("setView", view = v, TRUE)
                        /\ UNCHANGED chainVars
                 ELSE IF d.container # "node"
                   \* this._$container[0] with no container: a TypeError
                   THEN /\ Commit(d)
                        /\ lastOp' = OpOn("setView", "threw", view = v, FALSE)
                        /\ UNCHANGED chainVars
                   ELSE /\ Len(handlerKind) < MaxHandlers
                        /\ AddOwnHandler("tooltip")
                        /\ Commit(OwnHandlerAdded("tooltip", d))
                        /\ lastOp' = Op("setView", view = v, TRUE)
                        /\ UNCHANGED <<ongoingDestroy, stack, promises, calls>>
  /\ UNCHANGED <<initialized, parser, viewConfig, initResult>>
  /\ UNCHANGED <<gateVars, bridgeVars, debugVars>>

\* -------------------------------------------------------- loader.sanitize
\* export function bypassExternalUrlCheck(url) { return { url, bypassToken }; }
bypassExternalUrlCheck(url) == [kind |-> "object", url |-> url, bypassToken |-> bypassToken]

\* uri.bypassToken === bypassToken (a string has no such property)
HasAnyToken(uri) == uri.bypassToken # NoToken
HasBypassToken(uri) == uri.bypassToken = bypassToken

\* The sanitize override installed by createViewConfig() (lines 196-214):
\* what it does with a URI, and what it hands to the original sanitize.
Sanitize(uri, enabled) ==
  IF HasBypassToken(uri)
    THEN [uri |-> uri, out |-> "delegated", arg |-> StringUri(uri.url)]
  ELSE IF ~enabled
    THEN [uri |-> uri, out |-> "threw", arg |-> NoUri]
    ELSE [uri |-> uri, out |-> "delegated", arg |-> uri]

\* The engine loads a resource through the loader of the view configuration.
LoaderSanitize ==
  /\ Idle
  /\ viewConfig = "set"
  /\ \E uri \in Uris : sanitized' = Sanitize(uri, enableExternalUrls)
  /\ lastOp' = Op("sanitize", FALSE, FALSE)
  /\ UNCHANGED <<chainVars, lifeVars, enableExternalUrls, bridgeVars, debugVars>>

\* ---------------------------------------------------------- time ranges
\* static _parseTimeRange(start, end), lines 390-439.
\* reverse = absStart.isAfter(absEnd) / startDate.isAfter(endDate)
ReverseNever(startAt, endAt) == FALSE
Reverse(startAt, endAt) == startAt > endAt

\* !startDate || !endDate || !startDate.isValid() || !endDate.isValid()
UnparsedBoth(start, end) == start.at = 0 /\ end.at = 0
Unparsed(start, end) == start.at = 0 \/ end.at = 0

\* if (isValidAbsStart || isValidAbsEnd): absolute; else: relative
ModeAbsoluteIfBoth(isValidAbsStart, isValidAbsEnd) ==
  IF isValidAbsStart /\ isValidAbsEnd THEN "absolute" ELSE "relative"
ModeOfMixed(isValidAbsStart, isValidAbsEnd) ==
  IF isValidAbsStart \/ isValidAbsEnd THEN "absolute" ELSE "relative"

ParseTimeRange(start, end) ==
  LET swap(r) == [r EXCEPT !.from = r.to, !.to = r.from]
      result(from, to, mode, reverse) ==
        LET r == [ok |-> TRUE, from |-> from, to |-> to, mode |-> mode]
        IN IF reverse THEN swap(r) ELSE r
  IN
  IF start.abs /\ end.abs
    THEN result(Instant(start.at), Instant(end.at), "absolute", Reverse(start.at, end.at))
  ELSE IF Unparsed(start, end)
    THEN NoResult
  ELSE IF ModeOfMixed(start.abs, end.abs) = "absolute"
    THEN result(Instant(start.at), Instant(end.at), "absolute", Reverse(start.at, end.at))
    ELSE result(Raw(start), Raw(end), "relative", Reverse(start.at, end.at))

\* --------------------------------------------------- vegaFunctionsHandler()
\* vegaFunctions[funcName]: the table's entry; for a name the table inherits
\* from Object.prototype, that inherited function; otherwise undefined.
LookupHandlerDefaulting(funcName) ==
  CASE funcName = "opensearchDashboardsAddFilter" -> "addFilterHandler"
    [] funcName = "opensearchDashboardsRemoveFilter" -> "removeFilterHandler"
    [] funcName = "opensearchDashboardsSetTimeFilter" -> "setTimeFilterHandler"
    [] OTHER -> "removeAllFiltersHandler"
LookupHandler(funcName) ==
  CASE funcName = "opensearchDashboardsAddFilter" -> "addFilterHandler"
    [] funcName = "opensearchDashboardsRemoveFilter" -> "removeFilterHandler"
    [] funcName = "opensearchDashboardsRemoveAllFilters" -> "removeAllFiltersHandler"
    [] funcName = "opensearchDashboardsSetTimeFilter" -> "setTimeFilterHandler"
    [] funcName = "toString" -> "function toString() { [native code] }"
    [] OTHER -> "undefined"

\* !handlerFunc || !this[handlerFunc]
HandlerMissing(handlerFunc) == handlerFunc = "undefined" \/ handlerFunc \notin methods

\* try { ... } catch (err) { this.onError(err); }: what the caller of
\* vegaFunctionsHandler() gets when the body throws.
BridgeRethrows(threw) == IF threw THEN "threw" ELSE "ok"
BridgeOutcome(threw) == "ok"

\* The names the engine (or any caller) may invoke the bridge with.
CalledNames == FunctionNames \cup {"toString", "notAFunction"}

VegaFunctionsHandler ==
  /\ Idle
  /\ Len(messages) < MaxMessages
  /\ \E funcName \in CalledNames :
       LET handlerFunc == LookupHandler(funcName) IN
       IF HandlerMissing(handlerFunc)
         THEN /\ Commit(AddMessage(Dom, "err"))
              /\ lastOp' = OpOut("bridge", funcName, BridgeOutcome(TRUE))
              /\ hostCalls' = {}
              /\ parsed' = NoParse
              /\ UNCHANGED <<pendingIndex, timeFilter>>
       ELSE IF handlerFunc \in {"addFilterHandler", "removeFilterHandler"}
         \* suspended in await this.findIndex(...)
         THEN /\ handlerFunc \notin pendingIndex
              /\ pendingIndex' = pendingIndex \cup {handlerFunc}
              /\ lastOp' = OpOut("bridge", funcName, "")
              /\ hostCalls' = {}
              /\ parsed' = NoParse
              /\ UNCHANGED <<domVars, timeFilter>>
       ELSE IF handlerFunc = "removeAllFiltersHandler"
         THEN /\ hostCalls' = {"removeAll"}
              /\ lastOp' = OpOut("bridge", funcName, BridgeOutcome(FALSE))
              /\ parsed' = NoParse
              /\ UNCHANGED <<domVars, pendingIndex, timeFilter>>
         \* setTimeFilterHandler(start, end); start and end are the values
         \* Utils.handleInvalidDate hands to _parseTimeRange
         ELSE \E start \in SpecTimeInputs, end \in SpecTimeInputs :
                LET r == ParseTimeRange(start, end) IN
                /\ parsed' = [start |-> start, end |-> end, out |-> r]
                /\ IF r.ok
                     THEN /\ hostCalls' = {"applyFilter"}
                          /\ timeFilter' = [mode |-> r.mode, gte |-> r.from, lte |-> r.to]
                          /\ lastOp' = OpOut("bridge", funcName, BridgeOutcome(FALSE))
                          /\ UNCHANGED <<domVars, pendingIndex>>
                     ELSE /\ Commit(AddMessage(Dom, "err"))
                          /\ lastOp' = OpOut("bridge", funcName, BridgeOutcome(TRUE))
                          /\ hostCalls' = {}
                          /\ UNCHANGED <<pendingIndex, timeFilter>>
  /\ UNCHANGED <<initialized, parser, passed, viewConfig, initResult>>
  /\ UNCHANGED <<chainVars, gateVars, debugVars, methods, pass, postrun>>

\* this.findIndex() settles for a suspended addFilterHandler or
\* removeFilterHandler, which then runs to its end (lines 320-353).
FindIndexDone ==
  /\ Idle
  /\ \E h \in pendingIndex : \E found \in BOOLEAN, existing \in BOOLEAN, fails \in BOOLEAN :
       /\ pendingIndex' = pendingIndex \ {h}
       /\ IF ~found
            \* findIndex throws: no such index, no default index
            THEN /\ Commit(AddMessage(Dom, "err"))
                 /\ lastOp' = OpOut("findIndex", h, BridgeOutcome(TRUE))
                 /\ hostCalls' = {}
          ELSE IF h = "addFilterHandler"
            THEN /\ hostCalls' = {"applyFilter"}
                 /\ lastOp' = OpOut("findIndex", h, BridgeOutcome(FALSE))
                 /\ UNCHANGED domVars
          ELSE IF ~existing
            THEN /\ hostCalls' = {"getFilters"}
                 /\ lastOp' = OpOut("findIndex", h, BridgeOutcome(FALSE))
                 /\ UNCHANGED domVars
            \* this._filterManager.removeFilter(existingFilter), which may throw
            ELSE /\ hostCalls' = {"getFilters", "removeFilter"}
                 /\ Commit(IF fails THEN AddMessage(Dom, "err") ELSE Dom)
                 /\ lastOp' = OpOut("findIndex", h, BridgeOutcome(FALSE))
  /\ UNCHANGED <<initialized, parser, passed, viewConfig, initResult>>
  /\ parsed' = NoParse
  /\ UNCHANGED <<chainVars, gateVars, debugVars, methods, timeFilter, pass, postrun>>

\* ------------------------------------------------- the destroy-handler chain
InitChain ==
  /\ Construct
  /\ parser = [error |-> FALSE, warnings |-> 0, hideWarnings |-> FALSE, tooltips |-> FALSE]
  /\ enableExternalUrls = FALSE
  /\ methods = HandlerMethods

NextChain ==
  \/ DestroyCall
  \/ HandlerStart
  \/ HandlerReturn
  \/ HandlerThrow
  \/ DestroyFinish
  \/ RegisterHandler
  \/ HandlerSettle

SpecChain == InitChain /\ [][NextChain]_vars

\* ------------------------------------------------------ the view lifecycle
Init == Construct /\ methods = HandlerMethods

Next ==
  \/ InitCall
  \/ InitCustomizationDone
  \/ SetView
  \/ OnError
  \/ OnWarn
  \/ DestroyCall
  \/ HandlerRunOwn
  \/ DestroyFinish

Spec == Init /\ [][Next]_vars

\* --------------------------------------------------- the URL access gate
NextGate ==
  \/ InitCall
  \/ InitCustomizationDone
  \/ LoaderSanitize

SpecGate == Init /\ [][NextGate]_vars

\* ------------------------------------------- the expression function bridge
InitBridge ==
  /\ Construct
  /\ parser.warnings = 0 /\ ~parser.hideWarnings /\ ~parser.tooltips
  /\ enableExternalUrls = FALSE

NextBridge ==
  \/ InitCall
  \/ InitCustomizationDone
  \/ VegaFunctionsHandler
  \/ FindIndexDone
  \/ DestroyCall
  \/ HandlerRunOwn
  \/ DestroyFinish

SpecBridge == InitBridge /\ [][NextBridge]_vars

\* ------------------------------------------------- the time-range normalizer
\* _parseTimeRange is static: any two inputs, no controller state involved.
InitTime ==
  /\ ConstructView
  /\ parser = [error |-> FALSE, warnings |-> 0, hideWarnings |-> FALSE, tooltips |-> FALSE]
  /\ enableExternalUrls = FALSE
  /\ methods = HandlerMethods
  /\ pass = NoView /\ postrun = <<>>
  /\ ConstructDebug
  /\ \E start \in TimeInputs, end \in TimeInputs :
       parsed = [start |-> start, end |-> end, out |-> NoResult]

ParseTimeRangeCall ==
  /\ lastOp.op = "new"
  /\ parsed' = [parsed EXCEPT !.out = ParseTimeRange(parsed.start, parsed.end)]
  /\ lastOp' = OpOut("parseTimeRange", "", IF parsed'.out.ok THEN "ok" ELSE "threw")
  /\ UNCHANGED <<chainVars, lifeVars, gateVars, debugVars, methods, pendingIndex, hostCalls, timeFilter>>
  /\ UNCHANGED <<pass, postrun>>

NextTime == ParseTimeRangeCall

SpecTime == InitTime /\ [][NextTime]_vars

\* ------------------------------------------- the engine's render passes
\* An expression function call as handlerFwd receives it: the function name
\* and, for setTimeFilter, the two values that reach _parseTimeRange (one
\* pair that parses, one that does not); torn records whether the
\* controller's handler array was gone already.
EngineTimeInputs == {x \in TimeInputs : x.raw \in {"2021-01-01", "not-a-date"}}
EngineCalls ==
  [name : FunctionNames \ {"opensearchDashboardsSetTimeFilter"},
   start : {NoTimeInput}, end : {NoTimeInput}, torn : BOOLEAN]
    \cup [name : {"opensearchDashboardsSetTimeFilter"},
          start : {x \in TimeInputs : x.raw = "now-1h"}, end : EngineTimeInputs,
          torn : BOOLEAN]

\* view.runAfter(callback), called from inside a dataflow evaluation: the
\* engine keeps the callback until that evaluation is over.
HandlerFwdCallsDirectly(inPass) == FALSE
HandlerFwdDefers(inPass) == inPass

\* What the bridge fields are after vegaFunctionsHandler(c.name, ...) ran its
\* synchronous part on them (lines 294-313 and the handler called).
BridgeFields ==
  [d |-> Dom, pendingIndex |-> pendingIndex, hostCalls |-> {},
   timeFilter |-> timeFilter, parsed |-> NoParse]

Deliver(s, c) ==
  LET handlerFunc == LookupHandler(c.name) IN
  IF HandlerMissing(handlerFunc)
    THEN [s EXCEPT !.d = AddMessage(@, "err")]
  ELSE IF handlerFunc \in {"addFilterHandler", "removeFilterHandler"}
    THEN [s EXCEPT !.pendingIndex = @ \cup {handlerFunc}]
  ELSE IF handlerFunc = "removeAllFiltersHandler"
    THEN [s EXCEPT !.hostCalls = @ \cup {"removeAll"}]
    ELSE LET r == ParseTimeRange(c.start, c.end) IN
         IF r.ok
           THEN [s EXCEPT !.hostCalls = @ \cup {"applyFilter"},
                          !.timeFilter = [mode |-> r.mode, gte |-> r.from, lte |-> r.to],
                          !.parsed = [start |-> c.start, end |-> c.end, out |-> r]]
           ELSE [s EXCEPT !.d = AddMessage(@, "err"),
                          !.parsed = [start |-> c.start, end |-> c.end, out |-> r]]

RECURSIVE DeliverAll(_, _)
DeliverAll(s, q) == IF q = <<>> THEN s ELSE DeliverAll(Deliver(s, Head(q)), Tail(q))

CommitBridge(s) ==
  /\ Commit(s.d)
  /\ pendingIndex' = s.pendingIndex
  /\ hostCalls' = s.hostCalls
  /\ timeFilter' = s.timeFilter
  /\ parsed' = s.parsed

\* view.runAsync() and every later re-evaluation of the bound handle: a
\* render pass begins.  It is asynchronous: the host runs in between.
RunAsync ==
  /\ Idle
  /\ view # NoView /\ pass = NoView
  /\ pass' = view
  /\ hostCalls' = {}
  /\ parsed' = NoParse
  /\ lastOp' = Op("runAsync", FALSE, FALSE)
  /\ UNCHANGED <<chainVars, lifeVars, gateVars, debugVars>>
  /\ UNCHANGED <<methods, pendingIndex, timeFilter, postrun>>

\* handlerFwd(...args), lines 58-61: the engine evaluates an expression that
\* calls one of the registered functions, during a pass of the handle.
HandlerFwd ==
  /\ Idle
  /\ pass # NoView
  /\ Len(postrun) < MaxDeferred
  /\ Len(messages) + Len(postrun) < MaxMessages
  /\ \E c \in EngineCalls :
       /\ c.torn = (destroyHandlers = Null)
       /\ LookupHandler(c.name) \notin pendingIndex
       /\ \A k \in 1..Len(postrun) : postrun[k].name # c.name
       /\ IF HandlerFwdDefers(pass # NoView)
            THEN /\ postrun' = Append(postrun, c)
                 /\ hostCalls' = {}
                 /\ parsed' = NoParse
                 /\ UNCHANGED <<domVars, pendingIndex, timeFilter>>
            ELSE /\ CommitBridge(Deliver(BridgeFields, c))
                 /\ postrun' = postrun
       /\ lastOp' = OpOut("handlerFwd", c.name, "")
  /\ UNCHANGED <<initialized, parser, passed, viewConfig, initResult>>
  /\ UNCHANGED <<chainVars, gateVars, debugVars, methods, pass>>

\* The pass of the handle is over: the engine runs the callbacks runAfter()
\* kept, in order; each calls vegaFunctionsHandler on the controller the
\* handle refers to (view._opensearchDashboardsView, set at line 273).
PassEnd ==
  /\ Idle
  /\ pass # NoView
  /\ pass' = NoView
  /\ postrun' = <<>>
  /\ CommitBridge(DeliverAll(BridgeFields, postrun))
  /\ lastOp' = OpOut("passEnd", "", BridgeOutcome(FALSE))
  /\ UNCHANGED <<initialized, parser, passed, viewConfig, initResult>>
  /\ UNCHANGED <<chainVars, gateVars, debugVars, methods>>

InitEngine ==
  /\ Construct
  /\ parser = [error |-> FALSE, warnings |-> 0, hideWarnings |-> FALSE, tooltips |-> FALSE]
  /\ enableExternalUrls = FALSE
  /\ methods = HandlerMethods

NextEngine ==
  \/ InitCall
  \/ InitCustomizationDone
  \/ SetView
  \/ RunAsync
  \/ HandlerFwd
  \/ PassEnd
  \/ FindIndexDone
  \/ DestroyCall
  \/ HandlerRunOwn
  \/ DestroyFinish

SpecEngine == InitEngine /\ [][NextEngine]_vars

\* The render passes of the bound handle alone, on a live controller.
NextPass ==
  \/ SetView
  \/ RunAsync
  \/ HandlerFwd
  \/ PassEnd
  \/ FindIndexDone

SpecPass == InitEngine /\ [][NextPass]_vars

\* ------------------------------------------------- the global debug slot
\* The cleanup setDebugValues() registers: if (debugObj === window.VEGA_DEBUG)
OwnsSlotAlways(debugObj, slot) == TRUE
OwnsSlot(debugObj, slot) == debugObj = slot

\* () => { if (debugObj === window.VEGA_DEBUG) window.VEGA_DEBUG = null; }
DebugCleanup(debugObj, slot) == IF OwnsSlot(debugObj, slot) THEN DebugNull ELSE slot

\* destroy() maps over the handlers in index order; the debug cleanups are
\* synchronous and act on the slot only.
RECURSIVE DebugCleanupAll(_, _)
DebugCleanupAll(hs, slot) ==
  IF hs = <<>> THEN slot ELSE DebugCleanupAll(Tail(hs), DebugCleanup(Head(hs), slot))

\* setDebugValues(view, spec, vlspec) on controller c, lines 444-476.
SetDebugValues ==
  /\ Len(debugObjs) < MaxBinds
  /\ \E c \in Controllers :
       LET debugObj == Len(debugObjs) + 1 IN
       /\ welcomed' = IF debugSlot = DebugUndefined THEN welcomed + 1 ELSE welcomed
       /\ debugObjs' = Append(debugObjs, [owner |-> c, view |-> debugObj])
       /\ IF debugHandlers[c] # Null
            THEN /\ debugHandlers' = [debugHandlers EXCEPT ![c] = Append(@, debugObj)]
                 /\ debugSlot' = debugObj
            \* the controller was destroyed: the cleanup runs right away
            ELSE /\ debugHandlers' = debugHandlers
                 /\ debugSlot' = DebugCleanup(debugObj, debugObj)
       /\ lastOp' = OpOut("setDebugValues", c, "")
  /\ UNCHANGED <<chainVars, lifeVars, gateVars, bridgeVars>>

\* destroy() on controller c, as far as the debug slot is concerned.
DestroyDebug ==
  /\ \E c \in Controllers :
       /\ IF debugHandlers[c] # Null
            THEN /\ debugSlot' = DebugCleanupAll(debugHandlers[c], debugSlot)
                 /\ debugHandlers' = [debugHandlers EXCEPT ![c] = Null]
            ELSE UNCHANGED <<debugSlot, debugHandlers>>
       /\ lastOp' = OpOut("destroyDebug", c, "")
  /\ UNCHANGED <<debugObjs, welcomed>>
  /\ UNCHANGED <<chainVars, lifeVars, gateVars, bridgeVars>>

NextDebug ==
  \/ SetDebugValues
  \/ DestroyDebug

SpecDebug == InitEngine /\ [][NextDebug]_vars

\* ============================================================== properties
RunsOf(h) == {r \in 1..Len(runs) : runs[r].h = h}
Last(s) == s[Len(s)]
\* The items of the message list before a step appends to it.
ItemsBefore == IF messagesEl = "node" THEN messages ELSE <<>>

\* C1: however many times destroy() is called, also while the first teardown
\* is still running, every registered cleanup handler is executed exactly
\* once and every one of the calls resolves.
C1_EveryHandlerOnceAllResolve ==
  /\ \A h \in 1..Len(handlerKind) : Cardinality(RunsOf(h)) <= 1
  /\ \A c \in 1..Len(calls) : calls[c].st # "threw"
  /\ (Idle /\ destroyHandlers = Null) =>
       \A h \in 1..Len(handlerKind) : Cardinality(RunsOf(h)) = 1

\* C2: every destroy() call after the first returns the completion signal
\* the first call returns, and that signal is not complete before every
\* handler registered at the first call has completed.
C2_SameSignalAfterHandlers ==
  /\ \A c \in 2..Len(calls) :
       calls[c].st = "returned" =>
         /\ calls[1].st # "threw"
         /\ calls[1].st = "returned" => calls[c].val = calls[1].val
  /\ (calls # <<>> /\ calls[1].st = "returned" /\ calls[1].val # Undefined
        /\ PromiseState(calls[1].val) = "fulfilled") =>
       \A k \in 1..Len(calls[1].arr) :
         \E r \in RunsOf(calls[1].arr[k]) : runs[r].st \in {"returned", "resolved"}

\* C3: once destroy() has been called and every pending operation has
\* finished, no DOM node the controller mounted is left under the parent
\* element and no engine handle given to setView() is left un-finalized.
C3_NothingLeftAfterDestroy ==
  (/\ calls # <<>>
   /\ \A c \in 1..Len(calls) : calls[c].st = "returned"
   /\ Idle
   /\ initResult # "awaiting")
  => (parentEl = {} /\ passed \subseteq finalized)

\* The handlers destroy() call c found in the array, and their runs.
StartedBy(c, h) == {r \in RunsOf(h) : runs[r].call = c}

\* C4 (as amended): destroy() starts the cleanup handlers in the order in
\* which they were registered: when it starts a handler, it has started
\* every handler registered before that one.
C4_StartedInRegistrationOrder ==
  \A r \in 1..Len(runs) :
    runs[r].call # 0 =>
      \A k \in 1..Len(calls[runs[r].call].arr) :
        LET h1 == calls[runs[r].call].arr[k] IN
        h1 < runs[r].h => \E r1 \in StartedBy(runs[r].call, h1) : r1 < r

\* C4 (as claimed): destroy() starts the handlers in the reverse of the
\* registration order: when it starts a handler, it has started every
\* handler registered after that one.
C4_StartedInReverseOrder ==
  \A r \in 1..Len(runs) :
    runs[r].call # 0 =>
      \A k \in 1..Len(calls[runs[r].call].arr) :
        LET h2 == calls[runs[r].call].arr[k] IN
        h2 > runs[r].h => \E r2 \in StartedBy(runs[r].call, h2) : r2 < r

\* Two handlers were enqueued and one destroy() call has started both.
C4_Witness ==
  \E c \in 1..Len(calls) :
    /\ Len(calls[c].arr) = 2
    /\ StartedBy(c, calls[c].arr[1]) # {}
    /\ StartedBy(c, calls[c].arr[2]) # {}

\* Everything but lastOp: what a call that does nothing leaves unchanged.
state == <<chainVars, lifeVars, gateVars, bridgeVars, debugVars>>

\* C5: an init() call on a controller that was initialized already, whether
\* the first init() has finished or is still awaiting, fails towards its
\* caller and changes nothing: no message, no DOM node, no cleanup handler.
C5_SecondInitFails ==
  [][(lastOp'.op = "init" /\ initialized) =>
       (lastOp'.path = "threw" /\ UNCHANGED state)]_vars

\* A second init() call has failed while the first one was still awaiting.
C5_Witness ==
  lastOp.op = "init" /\ lastOp.path = "threw" /\ initResult = "awaiting"

RECURSIVE Repeat(_, _)
Repeat(x, n) == IF n = 0 THEN <<>> ELSE <<x>> \o Repeat(x, n - 1)

\* C7: when the ParserResult carries an error, init() (unless it throws
\* before) appends one item per parse warning and then the error item, in
\* that order, and stops: nothing else is mounted, no cleanup handler is
\* registered, the customization step is not awaited, no handle is bound.
C7_ParseErrorHalts ==
  [][(lastOp'.op = "init" /\ ~initialized /\ parser.error /\ lastOp'.path # "empty") =>
       /\ messages' = ItemsBefore \o Repeat("warn", parser.warnings) \o <<"err">>
       /\ parentEl' \subseteq {"messages"}
       /\ messagesEl' = "node"
       /\ initResult' = "ok"
       /\ UNCHANGED <<container, controls, view, finalized, viewConfig, chainVars>>]_vars

\* init() has reported a parse error that came with a parse warning.
C7_Witness ==
  lastOp.op = "init" /\ lastOp.path = "parseError" /\ parser.warnings > 0
    /\ messages = Repeat("warn", parser.warnings) \o <<"err">>
    /\ container = "unset" /\ handlerKind = <<>>

\* C8: of the engine handles ever given to setView(), at most one is not
\* finalized, and it is the bound one; setView(h) with another handle than
\* the bound one finalizes the bound one, and setView(h) with the bound
\* handle finalizes nothing, rebinds nothing and starts no render.
C8_OneLiveHandle ==
  /\ [](\A h \in passed : h \notin finalized => view = h)
  /\ [][lastOp'.op = "setView" =>
          IF lastOp'.same
            THEN UNCHANGED state /\ ~lastOp'.render
            ELSE view # NoView => view \in finalized']_vars

\* A second handle is bound, the first one has been finalized.
C8_Witness ==
  Cardinality(passed) = 2 /\ view \in passed /\ finalized = passed \ {view}
    /\ lastOp.op = "setView"

\* C9: with external URLs disabled, sanitize hands a URI on exactly when it
\* carries the module's own bypass token, and then hands on its inner url;
\* anything else, a different token included, is rejected and the original
\* sanitize is not called.
C9_BypassByIdentity ==
  (sanitized.out # "none" /\ ~enableExternalUrls) =>
    /\ sanitized.out = "delegated" <=>
         (sanitized.uri.kind = "object" /\ sanitized.uri.bypassToken = bypassToken)
    /\ sanitized.out = "delegated" => sanitized.arg = StringUri(sanitized.uri.url)
    /\ sanitized.out # "delegated" => (sanitized.out = "threw" /\ sanitized.arg = NoUri)
    /\ (\E u \in Urls : sanitized.uri = bypassExternalUrlCheck(u)) =>
         sanitized.out = "delegated"

\* A URI carrying another token than the module's has been rejected.
C9_Witness ==
  /\ ~enableExternalUrls
  /\ sanitized.uri.kind = "object"
  /\ sanitized.uri.bypassToken \notin {NoToken, bypassToken}
  /\ sanitized.out = "threw"

\* C10: the bridge, called with a name outside the table or with a name
\* whose handler method the controller lacks, appends an error item, calls
\* no handler and no host service, and completes normally.
C10_UnknownFunctionReported ==
  [][(lastOp'.op = "bridge"
        /\ (lastOp'.path \notin FunctionNames
              \/ LookupHandler(lastOp'.path) \notin methods)) =>
       /\ messages' = Append(ItemsBefore, "err")
       /\ messagesEl' = "node"
       /\ hostCalls' = {}
       /\ UNCHANGED <<pendingIndex, timeFilter, chainVars>>
       /\ lastOp'.out = "ok"]_vars

\* The bridge has been called with a name that is not in the table.
C10_Witness ==
  lastOp.op = "bridge" /\ lastOp.path = "notAFunction" /\ lastOp.out = "ok"
    /\ Last(messages) = "err"

\* C15: while a cleanup handler started by destroy() is running, the handler
\* array is cleared already, and a destroy() call made from inside a running
\* handler runs no handler.
C15_ChainClearedBeforeHandlersRun ==
  /\ \A k \in 1..Len(stack) :
       (stack[k].kind = "destroy" /\ stack[k].run # 0) => destroyHandlers = Null
  /\ \A c \in 1..Len(calls) :
       calls[c].nested => \A r \in 1..Len(runs) : runs[r].call # c

\* C16: _addDestroyHandler enqueues the handler, without running it, when no
\* destroy() call was made yet; once a destroy() call was made it invokes the
\* handler right away and does not enqueue it; and no completion signal of
\* destroy() waits for a handler that was invoked right away.
C16_EnqueuedBeforeImmediateAfter ==
  /\ [][lastOp'.op = "register" =>
          IF calls = <<>>
            THEN /\ destroyHandlers' = Append(destroyHandlers, Len(handlerKind'))
                 /\ stack' = stack
            ELSE /\ destroyHandlers' = destroyHandlers
                 /\ stack' = Append(stack, Frame("imm", 0, <<Len(handlerKind')>>))]_vars
  /\ [](\A p \in 1..Len(promises) : \A k \in 1..Len(promises[p]) :
          promises[p][k] # Undefined => runs[promises[p][k]].call # 0)

\* C19: after a destroy() call in which a cleanup handler threw, the handler
\* array is cleared, so that later registrations run at once, and no handler
\* is run a second time.
C19_TornDownAfterHandlerFailure ==
  (Idle /\ \E c \in 1..Len(calls) : calls[c].st = "threw") =>
     /\ destroyHandlers = Null
     /\ \A h \in 1..Len(handlerKind) : Cardinality(RunsOf(h)) <= 1

\* C18 (as amended): with hideWarnings set, onWarn() appends nothing; init()
\* on a controller that was not destroyed still appends one warning item per
\* parse warning; and onError() still appends its error item.
C18_OnWarnSuppressedInitNot ==
  [][parser.hideWarnings =>
       /\ lastOp'.op = "onWarn" => UNCHANGED state
       /\ (lastOp'.op = "init" /\ ~initialized /\ lastOp'.path # "empty"
             /\ destroyHandlers # Null) =>
            /\ Len(messages') >= Len(ItemsBefore) + parser.warnings
            /\ SubSeq(messages', 1, Len(ItemsBefore) + parser.warnings)
                 = ItemsBefore \o Repeat("warn", parser.warnings)
       /\ lastOp'.op = "onError" => messages' = Append(ItemsBefore, "err")]_vars

\* C18 (as claimed): with hideWarnings set, the message list never holds a
\* warning item.
C18_NoWarningWhenHidden ==
  parser.hideWarnings => \A k \in 1..Len(messages) : messages[k] # "warn"

\* With hideWarnings set, init() has shown a parse warning and a later
\* onWarn() has added nothing to it.
C18_Witness ==
  parser.hideWarnings /\ lastOp.op = "onWarn" /\ messages = <<"warn">>

\* The instant a `from` or `to` value denotes: a resolved instant itself, a
\* raw expression the instant it resolves to.
AtOf(v) == IF v.kind = "instant" THEN v.at ELSE (CHOOSE x \in TimeInputs : x.raw = v.raw).at
\* _parseTimeRange with the two arguments exchanged.
Swapped == ParseTimeRange(parsed.end, parsed.start)
Returned == lastOp.op = "parseTimeRange" /\ parsed.out.ok

\* C12 (as amended): for an accepted pair, both argument orders give the same
\* mode and `from`/`to` values that denote the same instants, `from` never
\* after `to`; when the two inputs denote different instants the two results
\* are identical; two absolute inputs give mode absolute and the earlier
\* instant as `from`.
C12_SymmetricUpToEqualInstants ==
  Returned =>
    /\ Swapped.ok /\ Swapped.mode = parsed.out.mode
    /\ AtOf(Swapped.from) = AtOf(parsed.out.from)
    /\ AtOf(Swapped.to) = AtOf(parsed.out.to)
    /\ AtOf(parsed.out.from) <= AtOf(parsed.out.to)
    /\ parsed.start.at # parsed.end.at => Swapped = parsed.out
    /\ (parsed.start.abs /\ parsed.end.abs) =>
         /\ parsed.out.mode = "absolute"
         /\ Swapped = parsed.out
         /\ parsed.out.from = Instant(IF parsed.start.at <= parsed.end.at
                                        THEN parsed.start.at ELSE parsed.end.at)

\* C12 (as claimed): for an accepted pair, both argument orders give the very
\* same {from, to, mode}, with `from` not after `to`.
C12_SameResultInBothOrders ==
  Returned =>
    /\ Swapped = parsed.out
    /\ AtOf(parsed.out.from) <= AtOf(parsed.out.to)

\* Two relative expressions were given later one first, and were exchanged.
C12_Witness ==
  /\ Returned
  /\ parsed.start.at > parsed.end.at
  /\ parsed.out.mode = "relative"
  /\ parsed.out.from = Raw(parsed.end) /\ parsed.out.to = Raw(parsed.start)

\* C13: for an accepted pair the mode is relative exactly when neither input
\* is an absolute timestamp; then `from` and `to` are the two raw inputs;
\* otherwise, one relative and one absolute input included, both are the
\* resolved instants of the two inputs.
C13_ModeAndValueKinds ==
  Returned =>
    /\ parsed.out.mode \in {"relative", "absolute"}
    /\ parsed.out.mode = "relative" <=> (~parsed.start.abs /\ ~parsed.end.abs)
    /\ parsed.out.mode = "relative" =>
         <<parsed.out.from, parsed.out.to>> \in
           {<<Raw(parsed.start), Raw(parsed.end)>>, <<Raw(parsed.end), Raw(parsed.start)>>}
    /\ parsed.out.mode = "absolute" =>
         <<parsed.out.from, parsed.out.to>> \in
           {<<Instant(parsed.start.at), Instant(parsed.end.at)>>,
            <<Instant(parsed.end.at), Instant(parsed.start.at)>>}

\* A relative expression and an absolute timestamp gave two instants.
C13_Witness ==
  /\ Returned
  /\ ~parsed.start.abs /\ parsed.end.abs
  /\ parsed.out.mode = "absolute"
  /\ parsed.out.from.kind = "instant" /\ parsed.out.to.kind = "instant"

\* An input that is neither an absolute timestamp nor a relative expression.
NeverParses(x) == ~x.abs /\ x.at = 0

\* C14: a setTimeFilter call through the bridge with at least one input that
\* parses in neither way makes _parseTimeRange fail, appends an error item,
\* does not call this._applyFilter, and completes normally.
C14_MalformedRangeReported ==
  [][(/\ lastOp'.op = "bridge"
      /\ lastOp'.path = "opensearchDashboardsSetTimeFilter"
      /\ "setTimeFilterHandler" \in methods
      /\ (NeverParses(parsed'.start) \/ NeverParses(parsed'.end))) =>
       /\ ~parsed'.out.ok
       /\ messages' = Append(ItemsBefore, "err")
       /\ messagesEl' = "node"
       /\ hostCalls' = {}
       /\ timeFilter' = timeFilter
       /\ lastOp'.out = "ok"]_vars

\* The bridge has been given a relative expression and an unparseable value.
C14_Witness ==
  /\ lastOp.op = "bridge" /\ lastOp.path = "opensearchDashboardsSetTimeFilter"
  /\ parsed.start.raw = "now-1h" /\ parsed.end.raw = "not-a-date"
  /\ ~parsed.out.ok /\ hostCalls = {}
  /\ messages # <<>> /\ Last(messages) = "err"

\* C11 (as amended): an expression function called during a render pass is
\* only recorded, it touches neither the host nor the controller; the
\* recorded calls reach the controller in the step that ends that pass, and
\* none is held outside a pass.
C11_DeferredPastTriggeringPass ==
  /\ [](pass = NoView => postrun = <<>>)
  /\ [][/\ lastOp'.op = "handlerFwd" =>
             /\ Len(postrun') = Len(postrun) + 1
             /\ SubSeq(postrun', 1, Len(postrun)) = postrun
             /\ Last(postrun').name = lastOp'.path
             /\ hostCalls' = {}
             /\ UNCHANGED <<domVars, pendingIndex, timeFilter, chainVars>>
        /\ (postrun' # postrun /\ lastOp'.op # "handlerFwd") =>
             (pass # NoView /\ pass' = NoView /\ lastOp'.op = "passEnd")]_vars

\* C11 (as claimed): while a render pass is in progress no step of a handler
\* calls a host service or changes the controller.
C11_NoHandlerEffectDuringAnyPass ==
  [][(pass # NoView /\ pass' # NoView /\ lastOp'.op \in {"handlerFwd", "findIndex"}) =>
       (hostCalls' = {} /\ UNCHANGED <<domVars, timeFilter>>)]_vars

\* A pass has ended and the call recorded during it has reached its handler.
C11_Witness ==
  lastOp.op = "passEnd" /\ pass = NoView /\ hostCalls = {"removeAll"}

\* C20: once destroy() has completed, the delivery of calls that were
\* deferred before the teardown invokes no host service and mounts nothing
\* under the parent element.
C20_NoEffectAfterDestroy ==
  [][(/\ lastOp'.op = "passEnd"
      /\ destroyHandlers = Null
      /\ postrun # <<>>
      /\ \A k \in 1..Len(postrun) : ~postrun[k].torn) =>
       (hostCalls' = {} /\ parentEl' = parentEl)]_vars

\* C17: destroy() of a controller changes the debug slot only when the slot
\* holds an object that controller's own setDebugValues() installed, and then
\* empties it; a slot that holds the other controller's object keeps it.
C17_ClearsOnlyOwnDebugObject ==
  [][lastOp'.op = "destroyDebug" =>
       /\ debugSlot' # debugSlot =>
            /\ debugSlot \in 1..Len(debugObjs)
            /\ debugObjs[debugSlot].owner = lastOp'.path
            /\ debugSlot' = DebugNull
       /\ (debugSlot \in 1..Len(debugObjs) /\ debugObjs[debugSlot].owner # lastOp'.path) =>
            debugSlot' = debugSlot
       /\ (debugSlot \in 1..Len(debugObjs) /\ debugObjs[debugSlot].owner = lastOp'.path
             /\ debugHandlers[lastOp'.path] # Null) =>
            debugSlot' = DebugNull]_vars

\* The first controller bound, the second bound later, the first was
\* destroyed: the slot still holds what the second installed.
C17_Witness ==
  /\ lastOp.op = "destroyDebug" /\ lastOp.path = "first"
  /\ debugHandlers["first"] = Null
  /\ Len(debugObjs) >= 2
  /\ debugObjs[1].owner = "first"
  /\ debugSlot \in 2..Len(debugObjs)
  /\ debugObjs[debugSlot].owner = "second"

====
